---- MODULE Spec2Model ----
(***************************************************************************)
(* Coupon schedule functions of src/lib/coupon.js: the argument validator, *)
(* couppcd, coupncd, coupnum, coupdaybs, coupdays and coupdaysnc.          *)
(*                                                                         *)
(* A JavaScript Date is modelled as its UTC calendar fields plus the UTC   *)
(* hour of the instant: [kind, y, m, d, h], m in 1..12.  The helpers of    *)
(* @/_internal (hasRequiredArgs, splitDate, isEOM, addDate, daysBetween,   *)
(* getDaysInYear) are not part of coupon.js; they are modelled from their  *)
(* contracts.                                                              *)
(***************************************************************************)
EXTENDS Integers, Sequences, FiniteSets, TLC

VARIABLES settlement, maturity, frequency, basis, tz,
          pc, err, d, pcd, ncd, pcdSteps, ncdSteps,
          num12, daybs, days, daysnc

vars == <<settlement, maturity, frequency, basis, tz,
          pc, err, d, pcd, ncd, pcdSteps, ncdSteps,
          num12, daybs, days, daysnc>>

(* ---------------------------- bounds ----------------------------------- *)
YearSpan == 2
FirstYear == 2023
Years == FirstYear..(FirstYear + YearSpan - 1)
DaySet == {1, 15, 28, 29, 30, 31}
TZOffsets == {-5, 0, 3}

(* JavaScript undefined: an absent numeric argument, a number not yet returned *)
UNDEF == -1000

(* ------------------------- calendar, JS Date --------------------------- *)
IsLeap(y) == (y % 4 = 0 /\ y % 100 # 0) \/ y % 400 = 0

DaysInMonth(y, m) ==
    IF m = 2 THEN (IF IsLeap(y) THEN 29 ELSE 28)
    ELSE IF m \in {4, 6, 9, 11} THEN 30 ELSE 31

MkDate(y, m, dd, h) == [kind |-> "date", y |-> y, m |-> m, d |-> dd, h |-> h]
UndefinedArg == [kind |-> "undefined", y |-> 0, m |-> 0, d |-> 0, h |-> 0]
InvalidDate == [kind |-> "invalid", y |-> 0, m |-> 0, d |-> 0, h |-> 0]
NoDate == [kind |-> "none", y |-> 0, m |-> 0, d |-> 0, h |-> 0]

(* Field normalisation of the Date constructor and of setUTCDate: month0 is *)
(* 0-based, a day of 0 is the last day of the previous month, a day past    *)
(* the end of the month runs into the next month.                           *)
NormDate(y, month0, dd, h) ==
    LET k  == y * 12 + month0
        yy == k \div 12
        mm == (k % 12) + 1
        pk == k - 1
        nk == k + 1
    IN  IF dd < 1
        THEN MkDate(pk \div 12, (pk % 12) + 1,
                    DaysInMonth(pk \div 12, (pk % 12) + 1) + dd, h)
        ELSE IF dd > DaysInMonth(yy, mm)
        THEN MkDate(nk \div 12, (nk % 12) + 1, dd - DaysInMonth(yy, mm), h)
        ELSE MkDate(yy, mm, dd, h)

(* new Date(year, month0, day): midnight of that day in the host's local    *)
(* time, tz hours ahead of UTC.                                             *)
NewLocalDate(year, month0, dd, zone) ==
    LET loc == NormDate(year, month0, dd, 0)
    IN  IF zone = 0 THEN loc
        ELSE IF zone > 0 THEN NormDate(loc.y, loc.m - 1, loc.d - 1, 24 - zone)
        ELSE NormDate(loc.y, loc.m - 1, loc.d, -zone)

getUTCFullYear(x) == x.y
getUTCMonth(x) == x.m - 1
getUTCDate(x) == x.d
setUTCDate(x, n) == NormDate(x.y, x.m - 1, n, x.h)

DaysBeforeMonth(y, m) ==
    LET cum == <<0, 31, 59, 90, 120, 151, 181, 212, 243, 273, 304, 334>>
    IN  cum[m] + (IF m > 2 /\ IsLeap(y) THEN 1 ELSE 0)

Serial(x) ==
    LET p == x.y - 1
    IN  365 * p + (p \div 4) - (p \div 100) + (p \div 400)
        + DaysBeforeMonth(x.y, x.m) + x.d

(* +date : the instant as a number (hours) *)
TimeValue(x) == Serial(x) * 24 + x.h

Max(a, b) == IF a >= b THEN a ELSE b
Min(a, b) == IF a <= b THEN a ELSE b

(* --------------------- helpers of @/_internal -------------------------- *)
hasRequiredArgs(s, m, f) ==
    s.kind # "undefined" /\ m.kind # "undefined" /\ f # UNDEF

splitDate(x) == <<x.y, x.m, x.d>>

isEOM(x) == x.d = DaysInMonth(x.y, x.m)

addDate(x, years, months, dayz, eom) ==
    LET k  == x.y * 12 + (x.m - 1) + 12 * years + months
        yy == k \div 12
        mm == (k % 12) + 1
        dim == DaysInMonth(yy, mm)
        dd == IF eom /\ isEOM(x) THEN dim ELSE Min(x.d, dim)
    IN  NormDate(yy, mm - 1, dd + dayz, 0)

Days360US(a, b) ==
    LET aFeb == a.m = 2 /\ isEOM(a)
        bFeb == b.m = 2 /\ isEOM(b)
        d2a  == IF aFeb /\ bFeb THEN 30 ELSE b.d
        d1a  == IF a.d = 31 \/ aFeb THEN 30 ELSE a.d
        d2b  == IF d2a = 31 /\ d1a = 30 THEN 30 ELSE d2a
    IN  360 * (b.y - a.y) + 30 * (b.m - a.m) + (d2b - d1a)

Days360EU(a, b) ==
    360 * (b.y - a.y) + 30 * (b.m - a.m) + (Min(b.d, 30) - Min(a.d, 30))

daysBetween(a, b, bas) ==
    IF bas = 0 THEN Days360US(a, b)
    ELSE IF bas = 4 THEN Days360EU(a, b)
    ELSE Serial(b) - Serial(a)

getDaysInYear(year, bas) ==
    IF bas = 3 THEN 365
    ELSE IF bas = 1 THEN (IF IsLeap(year) THEN 366 ELSE 365)
    ELSE 360

(* Math.round(n / k) for positive n, k *)
RoundDiv(n, k) == (2 * n + k) \div (2 * k)

(* ----------------------------- validators ------------------------------ *)
validDate(x) == x.kind = "date"
validFrequency(x) == x \in {1, 2, 4}
validBasis(x) == x \in {0, 1, 2, 3, 4}

(* basis = 0 default parameter of the public functions *)
BasisArg(b) == IF b = UNDEF THEN 0 ELSE b

(* the basis check moved ahead of the frequency check *)
argsValidator_basisFirst(s, m, f, b) ==
    IF ~hasRequiredArgs(s, m, f) THEN "Missing"
    ELSE IF ~validDate(s) THEN "InvalidSettlement"
    ELSE IF ~validDate(m) THEN "InvalidMaturity"
    ELSE IF ~validBasis(b) THEN "InvalidBasis"
    ELSE IF ~validFrequency(f) THEN "InvalidFrequency"
    ELSE IF daysBetween(s, m, 0) <= 0 THEN "InvalidDateRange"
    ELSE "ok"

argsValidator(s, m, f, b) ==
    IF ~hasRequiredArgs(s, m, f) THEN "Missing"
    ELSE IF ~validDate(s) THEN "InvalidSettlement"
    ELSE IF ~validDate(m) THEN "InvalidMaturity"
    ELSE IF ~validFrequency(f) THEN "InvalidFrequency"
    ELSE IF ~validBasis(b) THEN "InvalidBasis"
    ELSE IF daysBetween(s, m, 0) <= 0 THEN "InvalidDateRange"
    ELSE "ok"

(* ------------------------------ couppcd -------------------------------- *)
PcdContinue(s, x) == TimeValue(s) < TimeValue(x)
(* the step taken as one month instead of 12/frequency months *)
PcdStepDate_oneMonth(x, f, m) == addDate(x, 0, -1, 0, isEOM(m))

PcdStepDate(x, f, m) == addDate(x, 0, -(12 \div f), 0, isEOM(m))

(* ------------------------------ coupncd -------------------------------- *)
NcdCandidate(s, m, zone) ==
    LET sp == splitDate(m)
        c  == NewLocalDate(getUTCFullYear(s), sp[2] - 1, sp[3], zone)
    IN  IF sp[2] # getUTCMonth(c) THEN setUTCDate(c, 0) ELSE c

NcdWindow(s, m, c) ==
    IF TimeValue(s) < TimeValue(c) THEN addDate(c, -1, 0, 0, isEOM(m)) ELSE c

(* the forward loop stopping on a date equal to settlement *)
NcdContinue_strict(s, x) == TimeValue(s) > TimeValue(x)

NcdContinue(s, x) == TimeValue(s) >= TimeValue(x)
NcdStepDate(x, f) == addDate(x, 0, 12 \div f, 0, FALSE)

NcdDayCorrection(x, m) ==
    LET month == getUTCMonth(x)
        x1 == setUTCDate(x, Max(getUTCDate(x), splitDate(m)[3]))
    IN  IF month # getUTCMonth(x1) THEN setUTCDate(x1, 0) ELSE x1

(* coupncd as one function of its inputs and of the host's zone *)
RECURSIVE NcdLoop(_, _, _)
NcdLoop(s, x, f) ==
    IF NcdContinue(s, x) THEN NcdLoop(s, NcdStepDate(x, f), f) ELSE x

coupncd(s, m, f, zone) ==
    NcdDayCorrection(NcdLoop(s, NcdWindow(s, m, NcdCandidate(s, m, zone)), f), m)

(* ------------------------------ coupnum -------------------------------- *)
(* coupnum returns months * frequency / 12; num12 holds months * frequency, *)
(* twelve times the returned number, so that a fractional result shows.     *)
(* the month difference taken without the year difference *)
CoupnumMonths_noYears(p, m) ==
    LET a == splitDate(p)
        b == splitDate(m)
    IN  b[2] - a[2]

CoupnumMonths(p, m) ==
    LET a == splitDate(p)
        b == splitDate(m)
    IN  (b[1] - a[1]) * 12 + (b[2] - a[2])

(* ------------------------- day-count functions ------------------------- *)
coupdaybs(p, s, bas) == daysBetween(p, s, bas)

coupdays(p, n, f, bas) ==
    IF bas = 1 THEN daysBetween(p, n, bas)
    ELSE RoundDiv(getDaysInYear(0, bas), f)

coupdaysnc(p, n, s, f, bas) ==
    IF bas = 0 THEN coupdays(p, n, f, bas) - coupdaybs(p, s, bas)
    ELSE daysBetween(s, n, bas)

(* ------------------------------ inputs --------------------------------- *)
Dates == {MkDate(y, m, dd, 0) : <<y, m, dd>> \in
             {t \in Years \X (1..12) \X DaySet : t[3] <= DaysInMonth(t[1], t[2])}}

ArgDates == {MkDate(2023, 1, 30, 0), MkDate(2023, 1, 31, 0), MkDate(2023, 2, 28, 0),
             MkDate(2023, 8, 30, 0), MkDate(2024, 2, 29, 0)}

TypeInit ==
    /\ pc = "call" /\ err = "none" /\ d = NoDate /\ pcd = NoDate /\ ncd = NoDate
    /\ pcdSteps = 0 /\ ncdSteps = 0
    /\ num12 = UNDEF /\ daybs = UNDEF /\ days = UNDEF /\ daysnc = UNDEF

ArgChoices == ArgDates \cup {UndefinedArg, InvalidDate}

(* well-typed calls: any two dates, any frequency and basis *)
InitDates ==
    /\ settlement \in Dates /\ maturity \in Dates
    /\ frequency \in {1, 2, 4} /\ basis \in {0, 1, 2, 3, 4}

(* calls with absent or ill-formed arguments *)
InitArgs ==
    /\ settlement \in ArgChoices /\ maturity \in ArgChoices
    /\ frequency \in {UNDEF, 0, 1, 2, 3, 4}
    /\ basis \in {UNDEF, -1, 0, 1, 2, 3, 4, 5}

(* host in UTC *)
Init == (InitDates \/ InitArgs) /\ tz = 0 /\ TypeInit

(* hosts in several time zones *)
InitTZ ==
    /\ settlement \in Dates /\ maturity \in Dates
    /\ frequency \in {1, 2, 4} /\ basis = 0
    /\ tz \in TZOffsets
    /\ TypeInit

Validate ==
    /\ pc = "call"
    /\ LET r == argsValidator(settlement, maturity, frequency, BasisArg(basis))
       IN  IF r = "ok"
           THEN pc' = "pcd" /\ err' = err /\ d' = maturity
           ELSE pc' = "error" /\ err' = r /\ d' = d
    /\ UNCHANGED <<settlement, maturity, frequency, basis, tz, pcd, ncd,
                   pcdSteps, ncdSteps, num12, daybs, days, daysnc>>

PcdStep ==
    /\ pc = "pcd"
    /\ PcdContinue(settlement, d)
    /\ d' = PcdStepDate(d, frequency, maturity)
    /\ pcdSteps' = pcdSteps + 1
    /\ UNCHANGED <<settlement, maturity, frequency, basis, tz, pc, err, pcd, ncd,
                   ncdSteps, num12, daybs, days, daysnc>>

PcdReturn ==
    /\ pc = "pcd"
    /\ ~PcdContinue(settlement, d)
    /\ pcd' = d
    /\ d' = NcdWindow(settlement, maturity, NcdCandidate(settlement, maturity, tz))
    /\ pc' = "ncd"
    /\ UNCHANGED <<settlement, maturity, frequency, basis, tz, err, ncd,
                   pcdSteps, ncdSteps, num12, daybs, days, daysnc>>

NcdStep ==
    /\ pc = "ncd"
    /\ NcdContinue(settlement, d)
    /\ d' = NcdStepDate(d, frequency)
    /\ ncdSteps' = ncdSteps + 1
    /\ UNCHANGED <<settlement, maturity, frequency, basis, tz, pc, err, pcd, ncd,
                   pcdSteps, num12, daybs, days, daysnc>>

NcdReturn ==
    /\ pc = "ncd"
    /\ ~NcdContinue(settlement, d)
    /\ ncd' = NcdDayCorrection(d, maturity)
    /\ pc' = "counts"
    /\ UNCHANGED <<settlement, maturity, frequency, basis, tz, err, d, pcd,
                   pcdSteps, ncdSteps, num12, daybs, days, daysnc>>

Counts ==
    /\ pc = "counts"
    /\ num12' = CoupnumMonths(pcd, maturity) * frequency
    /\ daybs' = coupdaybs(pcd, settlement, BasisArg(basis))
    /\ days' = coupdays(pcd, ncd, frequency, BasisArg(basis))
    /\ daysnc' = coupdaysnc(pcd, ncd, settlement, frequency, BasisArg(basis))
    /\ pc' = "done"
    /\ UNCHANGED <<settlement, maturity, frequency, basis, tz, err, d, pcd, ncd,
                   pcdSteps, ncdSteps>>

Next == Validate \/ PcdStep \/ PcdReturn \/ NcdStep \/ NcdReturn \/ Counts

Spec == Init /\ [][Next]_vars

SpecTZ == InitTZ /\ [][Next]_vars
(* ======================== properties of the claims ===================== *)
Computed == pc \in {"counts", "done"}
Accepted == pc \notin {"call", "error"}
Period == 12 \div frequency
MonthIndex(x) == x.y * 12 + (x.m - 1)
CalendarOf(x) == <<x.y, x.m, x.d>>
TypesOk ==
    /\ hasRequiredArgs(settlement, maturity, frequency)
    /\ validDate(settlement) /\ validDate(maturity)
    /\ validFrequency(frequency) /\ validBasis(BasisArg(basis))
WholeYears(a, b) ==
    (b.y - a.y) - (IF b.m < a.m \/ (b.m = a.m /\ b.d < a.d) THEN 1 ELSE 0)

(* C1: for every accepted input couppcd <= settlement < coupncd as calendar *)
(* dates; the backward loop stops on a boundary equal to settlement, so     *)
(* couppcd then returns settlement itself.                                  *)
C1_PeriodContainsSettlement ==
    /\ Computed => /\ Serial(pcd) <= Serial(settlement)
                   /\ Serial(settlement) < Serial(ncd)
    /\ (pc = "pcd" /\ CalendarOf(d) = CalendarOf(settlement))
          => ~PcdContinue(settlement, d)

C1_Witness ==
    /\ pc = "done" /\ pcdSteps >= 2
    /\ CalendarOf(pcd) = CalendarOf(settlement)
    /\ Serial(ncd) > Serial(settlement)

(* C2: when maturity is the last day of its month, the dates returned by    *)
(* couppcd and by coupncd are each the last day of their month.             *)
C2_EndOfMonthAnchoring ==
    (Computed /\ isEOM(maturity)) => (isEOM(pcd) /\ isEOM(ncd))

(* C3: when maturity's day is at most 28 and not a month end, couppcd and   *)
(* coupncd return maturity's day-of-month and coupncd is exactly            *)
(* 12/frequency calendar months after couppcd.                              *)
C3_NoClampingExactPeriod ==
    (Computed /\ maturity.d <= 28 /\ ~isEOM(maturity)) =>
        /\ pcd.d = maturity.d
        /\ ncd.d = maturity.d
        /\ MonthIndex(ncd) = MonthIndex(pcd) + Period

(* C4: the validator runs before any date arithmetic and reports the first  *)
(* applicable error in the order missing, settlement, maturity, frequency,  *)
(* basis, range; an error leaves no result.                                 *)
C4_FirstErrorInOrder ==
    LET missing == ~hasRequiredArgs(settlement, maturity, frequency)
        badS == ~validDate(settlement)
        badM == ~validDate(maturity)
        badF == ~validFrequency(frequency)
        badB == ~validBasis(BasisArg(basis))
    IN  /\ pc # "call" =>
            /\ (err = "Missing") <=> missing
            /\ (err = "InvalidSettlement") <=> (~missing /\ badS)
            /\ (err = "InvalidMaturity") <=> (~missing /\ ~badS /\ badM)
            /\ (err = "InvalidFrequency") <=> (~missing /\ ~badS /\ ~badM /\ badF)
            /\ (err = "InvalidBasis") <=>
                   (~missing /\ ~badS /\ ~badM /\ ~badF /\ badB)
            /\ (err = "InvalidDateRange") => TypesOk
            /\ (TypesOk /\ Serial(settlement) >= Serial(maturity))
                   => err = "InvalidDateRange"
            /\ (err = "none") <=> (pc # "error")
        /\ (pc \in {"call", "error"}) =>
            /\ d = NoDate /\ pcd = NoDate /\ ncd = NoDate
            /\ pcdSteps = 0 /\ ncdSteps = 0
            /\ num12 = UNDEF /\ daybs = UNDEF /\ days = UNDEF /\ daysnc = UNDEF

C4_Witness ==
    /\ pc = "error" /\ err = "InvalidSettlement"
    /\ ~validDate(maturity) /\ maturity.kind # "undefined"
    /\ ~validFrequency(frequency) /\ ~validBasis(BasisArg(basis))

(* C5: with well-typed arguments the validator raises the date-range error  *)
(* exactly when settlement is not strictly earlier than maturity, and       *)
(* accepts whenever settlement is strictly earlier.                         *)
C5_RangeErrorIffNotBefore ==
    (pc # "call" /\ TypesOk) =>
        /\ (err = "InvalidDateRange") <=> (Serial(settlement) >= Serial(maturity))
        /\ (pc # "error") <=> (Serial(settlement) < Serial(maturity))

C7_LeapAnchorScenario ==
    (/\ Computed
     /\ settlement = MkDate(2023, 2, 28, 0) /\ maturity = MkDate(2024, 2, 29, 0)
     /\ frequency = 2 /\ basis = 0)
    => /\ CalendarOf(pcd) = <<2023, 2, 28>>
       /\ CalendarOf(ncd) = <<2023, 8, 31>>

(* C8: coupncd returns the same calendar date whatever the host's local     *)
(* time zone offset: the run in zone tz agrees with the run in UTC.         *)
C8_ZoneIndependent ==
    Computed =>
        CalendarOf(ncd) = CalendarOf(coupncd(settlement, maturity, frequency, 0))

(* C9: both loops are bounded: couppcd's loop runs at least once and at     *)
(* most (whole years between settlement and maturity + 1) * frequency       *)
(* times, coupncd's forward loop at most 2 * frequency + 1 times, and each  *)
(* iteration moves d by 12/frequency months toward settlement.              *)
C9_LoopBounds ==
    Accepted =>
        /\ pcdSteps <= (WholeYears(settlement, maturity) + 1) * frequency
        /\ ncdSteps <= 2 * frequency + 1
        /\ pc # "pcd" => pcdSteps >= 1
        /\ pc = "pcd" => MonthIndex(d) = MonthIndex(maturity) - pcdSteps * Period
        /\ pc = "ncd" =>
              MonthIndex(d) =
                  MonthIndex(NcdWindow(settlement, maturity,
                                 NcdCandidate(settlement, maturity, tz)))
                  + ncdSteps * Period

C9_Witness ==
    /\ pc = "done"
    /\ pcdSteps = (WholeYears(settlement, maturity) + 1) * frequency
    /\ pcdSteps >= 4
    /\ ncdSteps >= 2

(* C10: for every valid input and basis coupdaysnc > 0 and coupdaybs >= 0;  *)
(* for basis 0 coupdaybs stays below the nominal period 360/frequency.      *)
C10_PositiveDayCounts ==
    pc = "done" =>
        /\ daysnc > 0
        /\ daybs >= 0
        /\ BasisArg(basis) = 0 => daybs < 360 \div frequency
====
